---- MODULE Spec2Model ----
(***************************************************************************)
(* Model of the league engine of insider-league-manager: the fixture       *)
(* generator, the match simulator, the standings ledger and the season     *)
(* controller (start / advance-week / play-all-matches handlers) over the  *)
(* relational store they write to.                                         *)
(***************************************************************************)
EXTENDS Integers, Sequences, FiniteSets, TLC

(***************************************************************************)
(* Bounds                                                                  *)
(***************************************************************************)
\* largest team list handed to the fixture generator in SpecGen
MaxGenTeams == 5

\* rows of the teams table (IDs 1..MaxTeams, all present)
MaxTeams == 4

\* storage failures injected in one behaviour
MaxFailures == 1

\* remove-team requests, and add-team requests for a league that has left
\* status created, served in one behaviour
MaxMemberChanges == 1

\* SpecConc: largest league whose season requests are interleaved
MaxConcTeams == 2

\* SpecConc: season requests taken by the workers in one behaviour
MaxConcRequests == 3

\* SQL NULL in the nullable goal columns of the matches table
NULL == -1

\* ID of the synthetic bye team
ByeTeamID == -1

Teams == 1..MaxTeams
\* the league ids requests address: the model follows one league, the first
\* the store creates
LeagueIDs == {1}

VARIABLES
    leagues,       \* table leagues: id -> [Status, CurrentWeek]
    league_teams,  \* table league_teams: set of <<league_id, team_id>>
    standings,     \* table standings: <<league_id, team_id>> -> row
    matches,       \* table matches: sequence of rows, id = position
    resp,          \* the response of the last completed request
    procs,         \* SpecConc: the requests in flight, one per worker
    begun,         \* SpecConc: season requests taken by the workers so far
    clock,         \* the random source's seed when the server came up
    failures,      \* storage failures injected so far
    memberChanges, \* removals, and additions after the league left created
    genTeams,      \* SpecGen: the ordered team list handed to the generator
    genMatches,    \* SpecGen: the generator's output
    genTotalWeeks, \* SpecGen: calculateTotalWeeks(len(teams))
    genDone,       \* SpecGen: the generator has run
    ledgerOp,      \* SpecLedger: the result recorded or edited last
    sim,           \* SpecSim: the simulator's inputs, draws and goals
    pred           \* SpecPredict: the champion prediction in progress

dbVars == <<leagues, league_teams, standings, matches>>
genVars == <<genTeams, genMatches, genTotalWeeks, genDone, ledgerOp, sim, pred>>
vars == <<leagues, league_teams, standings, matches, resp, procs, begun, clock, failures,
          memberChanges,
          genTeams, genMatches, genTotalWeeks, genDone, ledgerOp, sim, pred>>

(***************************************************************************)
(* Sequence helpers                                                        *)
(***************************************************************************)
RECURSIVE SeqSum(_)
SeqSum(s) == IF s = <<>> THEN 0 ELSE Head(s) + SeqSum(Tail(s))

RECURSIVE FlattenSeq(_)
FlattenSeq(ss) == IF ss = <<>> THEN <<>> ELSE Head(ss) \o FlattenSeq(Tail(ss))

Range(s) == {s[i] : i \in DOMAIN s}

\* all sequences without repetition over S, of length 0..Cardinality(S)
RECURSIVE Perms(_)
Perms(S) ==
    IF S = {} THEN {<<>>}
    ELSE {<<>>} \cup UNION {{<<x>> \o p : p \in Perms(S \ {x})} : x \in S}

(***************************************************************************)
(* Fixture generator                                                       *)
(***************************************************************************)
\* RoundPairing whose awayIndex lacks the + 1 that skips the fixed team 0
RoundPairing_AwayIndexFromZero(teams, round, i) ==
    LET n          == Len(teams)
        a0         == (round + 1) % (n - 1)
        anchorOpp  == IF a0 = 0 THEN n - 1 ELSE a0
        homeIndex  == ((round - i + n - 1) % (n - 1)) + 1
        awayIndex  == (round + i) % (n - 1)
        homeTeam   == IF i = 0 THEN teams[0 + 1] ELSE teams[homeIndex + 1]
        awayTeam   == IF i = 0 THEN teams[anchorOpp + 1] ELSE teams[awayIndex + 1]
    IN  IF round % 2 = 1 /\ i > 0
        THEN [HomeTeamID |-> awayTeam, AwayTeamID |-> homeTeam]
        ELSE [HomeTeamID |-> homeTeam, AwayTeamID |-> awayTeam]

\* one pairing of generateRoundMatches: loop body for index i (0-based) of
\* round `round` over the 0-indexed slice teams (teams[k] is teams[k+1] here)
RoundPairing(teams, round, i) ==
    LET n          == Len(teams)
        a0         == (round + 1) % (n - 1)
        anchorOpp  == IF a0 = 0 THEN n - 1 ELSE a0
        homeIndex  == ((round - i + n - 1) % (n - 1)) + 1
        awayIndex  == ((round + i) % (n - 1)) + 1
        homeTeam   == IF i = 0 THEN teams[0 + 1] ELSE teams[homeIndex + 1]
        awayTeam   == IF i = 0 THEN teams[anchorOpp + 1] ELSE teams[awayIndex + 1]
    IN  IF round % 2 = 1 /\ i > 0
        THEN [HomeTeamID |-> awayTeam, AwayTeamID |-> homeTeam]
        ELSE [HomeTeamID |-> homeTeam, AwayTeamID |-> awayTeam]

generateRoundMatches(teams, round) ==
    [k \in 1..(Len(teams) \div 2) |-> RoundPairing(teams, round, k - 1)]

\* the first-half fixtures of one round: byes dropped, league/week/status set
RoundFixtures(teams, round, leagueID) ==
    LET weekMatches == generateRoundMatches(teams, round)
        kept == SelectSeq(weekMatches,
                    LAMBDA m : ~(m.HomeTeamID = ByeTeamID \/ m.AwayTeamID = ByeTeamID))
    IN  [k \in 1..Len(kept) |->
            [LeagueID |-> leagueID, HomeTeamID |-> kept[k].HomeTeamID,
             AwayTeamID |-> kept[k].AwayTeamID, Week |-> round + 1,
             HomeGoals |-> NULL, AwayGoals |-> NULL, Status |-> "scheduled"]]

\* ReverseMatch that copies the first-half fixture without swapping the sides
ReverseMatch_NoSwap(firstHalfMatch, firstHalfWeeks, leagueID) ==
    [LeagueID |-> leagueID,
     HomeTeamID |-> firstHalfMatch.HomeTeamID,
     AwayTeamID |-> firstHalfMatch.AwayTeamID,
     Week |-> firstHalfMatch.Week + firstHalfWeeks,
     HomeGoals |-> NULL, AwayGoals |-> NULL, Status |-> "scheduled"]

\* the second-half fixture emitted for one first-half fixture
ReverseMatch(firstHalfMatch, firstHalfWeeks, leagueID) ==
    [LeagueID |-> leagueID,
     HomeTeamID |-> firstHalfMatch.AwayTeamID,
     AwayTeamID |-> firstHalfMatch.HomeTeamID,
     Week |-> firstHalfMatch.Week + firstHalfWeeks,
     HomeGoals |-> NULL, AwayGoals |-> NULL, Status |-> "scheduled"]

generateRoundRobinMatches(teamsIn, leagueID) ==
    IF Len(teamsIn) < 2 THEN <<>>
    ELSE
      LET teams == IF Len(teamsIn) % 2 = 1 THEN Append(teamsIn, ByeTeamID) ELSE teamsIn
          n == Len(teams)
          firstHalfMatches ==
              FlattenSeq([r \in 1..(n - 1) |-> RoundFixtures(teams, r - 1, leagueID)])
          firstHalfWeeks == n - 1
      IN  firstHalfMatches \o
          [k \in 1..Len(firstHalfMatches) |->
              ReverseMatch(firstHalfMatches[k], firstHalfWeeks, leagueID)]

calculateTotalWeeks(numTeams) ==
    IF numTeams < 2 THEN 0 ELSE 2 * (numTeams - 1)


(***************************************************************************)
(* Match simulator                                                         *)
(***************************************************************************)
homeAdvantage == 4

\* goal expectancy in hundredths: 1.5 + diff/100, clamped to [0.5, 3.0]
ClampExpectancy(e100) ==
    IF e100 < 50 THEN 50 ELSE IF e100 > 300 THEN 300 ELSE e100

\* generateGoalsFromExpectancy whose high table has one more bucket
generateGoalsFromExpectancy_SevenGoals(expectancy100, randNum) ==
    IF expectancy100 <= 100 THEN
        IF randNum < 50 THEN 0
        ELSE IF randNum < 85 THEN 1
        ELSE IF randNum < 95 THEN 2
        ELSE 3
    ELSE IF expectancy100 <= 200 THEN
        IF randNum < 25 THEN 0
        ELSE IF randNum < 50 THEN 1
        ELSE IF randNum < 75 THEN 2
        ELSE IF randNum < 90 THEN 3
        ELSE IF randNum < 97 THEN 4
        ELSE 5
    ELSE
        IF randNum < 15 THEN 0
        ELSE IF randNum < 30 THEN 1
        ELSE IF randNum < 50 THEN 2
        ELSE IF randNum < 70 THEN 3
        ELSE IF randNum < 85 THEN 4
        ELSE IF randNum < 95 THEN 5
        ELSE IF randNum < 99 THEN 6
        ELSE 7

\* expectancy in hundredths, randNum = rand.Intn(100)
generateGoalsFromExpectancy(expectancy100, randNum) ==
    IF expectancy100 <= 100 THEN
        IF randNum < 50 THEN 0
        ELSE IF randNum < 85 THEN 1
        ELSE IF randNum < 95 THEN 2
        ELSE 3
    ELSE IF expectancy100 <= 200 THEN
        IF randNum < 25 THEN 0
        ELSE IF randNum < 50 THEN 1
        ELSE IF randNum < 75 THEN 2
        ELSE IF randNum < 90 THEN 3
        ELSE IF randNum < 97 THEN 4
        ELSE 5
    ELSE
        IF randNum < 15 THEN 0
        ELSE IF randNum < 30 THEN 1
        ELSE IF randNum < 50 THEN 2
        ELSE IF randNum < 70 THEN 3
        ELSE IF randNum < 85 THEN 4
        ELSE IF randNum < 95 THEN 5
        ELSE 6

\* simulateMatch that adds the strength difference to the away side's
\* expectancy as well
simulateMatch_AwayGainsToo(homeStrength, awayStrength, r1, r2) ==
    LET adjustedHomeStrength == homeStrength + homeAdvantage
        strengthDiff == adjustedHomeStrength - awayStrength
        homeGoalExpectancy == ClampExpectancy(150 + strengthDiff)
        awayGoalExpectancy == ClampExpectancy(150 + strengthDiff)
    IN  <<generateGoalsFromExpectancy(homeGoalExpectancy, r1),
          generateGoalsFromExpectancy(awayGoalExpectancy, r2)>>

\* <<homeGoals, awayGoals>> for the two draws r1 (home) and r2 (away)
simulateMatch(homeStrength, awayStrength, r1, r2) ==
    LET adjustedHomeStrength == homeStrength + homeAdvantage
        strengthDiff == adjustedHomeStrength - awayStrength
        homeGoalExpectancy == ClampExpectancy(150 + strengthDiff)
        awayGoalExpectancy == ClampExpectancy(150 - strengthDiff)
    IN  <<generateGoalsFromExpectancy(homeGoalExpectancy, r1),
          generateGoalsFromExpectancy(awayGoalExpectancy, r2)>>

basicRandomGoals(randInt) ==
    IF randInt < 30 THEN 0
    ELSE IF randInt < 55 THEN 1
    ELSE IF randInt < 75 THEN 2
    ELSE IF randInt < 90 THEN 3
    ELSE IF randInt < 97 THEN 4
    ELSE 5

\* the strength column of the teams table
TeamStrength(t) == (t * 37) % 101

\* the values rand.Intn(100) returns: the k-th draw of a request seeded `seed`
DrawTable == <<10, 60, 30, 30, 60, 10, 99>>
Seeds == {0, 2}
Rand(seed, k) == DrawTable[((seed + k) % Len(DrawTable)) + 1]

(***************************************************************************)
(* The store: one operator per statement of the database service.  `db` is *)
(* [leagues, league_teams, standings, matches].                            *)
(***************************************************************************)
DB == [leagues |-> leagues, league_teams |-> league_teams,
       standings |-> standings, matches |-> matches]

RECURSIVE SetToSortedSeq(_)
SetToSortedSeq(S) ==
    IF S = {} THEN <<>>
    ELSE LET m == CHOOSE x \in S : \A y \in S : x <= y
         IN  <<m>> \o SetToSortedSeq(S \ {m})

ZeroStanding ==
    [Points |-> 0, Played |-> 0, Wins |-> 0, Draws |-> 0, Losses |-> 0,
     GoalsFor |-> 0, GoalsAgainst |-> 0, GoalDifference |-> 0]

\* INSERT INTO leagues ... RETURNING id: the next serial id
CreateLeague(db) ==
    LET id == Cardinality(DOMAIN db.leagues) + 1
    IN  [db EXCEPT !.leagues =
            [l \in (DOMAIN db.leagues) \cup {id} |->
                IF l = id THEN [Status |-> "created", CurrentWeek |-> 0]
                ELSE db.leagues[l]]]

\* INSERT INTO league_teams ... ON CONFLICT DO NOTHING
AddTeamToLeague(db, leagueID, teamID) ==
    [db EXCEPT !.league_teams = @ \cup {<<leagueID, teamID>>}]

\* INSERT INTO standings ... zeros ... ON CONFLICT DO NOTHING
InitializeStanding(db, leagueID, teamID) ==
    IF <<leagueID, teamID>> \in DOMAIN db.standings THEN db
    ELSE [db EXCEPT !.standings =
            [k \in (DOMAIN db.standings) \cup {<<leagueID, teamID>>} |->
                IF k = <<leagueID, teamID>> THEN ZeroStanding ELSE db.standings[k]]]

\* DELETE FROM standings WHERE league_id = $1 AND team_id = $2
DeleteStanding(db, leagueID, teamID) ==
    [db EXCEPT !.standings =
        [k \in (DOMAIN db.standings) \ {<<leagueID, teamID>>} |-> db.standings[k]]]

\* DELETE FROM league_teams WHERE league_id = $1 AND team_id = $2
DeleteLeagueTeam(db, leagueID, teamID) ==
    [db EXCEPT !.league_teams = @ \ {<<leagueID, teamID>>}]

\* SELECT ... FROM teams JOIN league_teams ... ORDER BY t.name
\* (team names are ordered as team ids)
GetTeamsInLeague(db, leagueID) ==
    SetToSortedSeq({t \in Teams : <<leagueID, t>> \in db.league_teams})

\* CreateMatch that inserts the goal columns as 0 instead of leaving them NULL
CreateMatch_ZeroGoals(db, match) ==
    [db EXCEPT !.matches = Append(@,
        [LeagueID |-> match.LeagueID, HomeTeamID |-> match.HomeTeamID,
         AwayTeamID |-> match.AwayTeamID, Week |-> match.Week,
         HomeGoals |-> 0, AwayGoals |-> 0, Status |-> match.Status])]

\* INSERT INTO matches (league_id, home_team_id, away_team_id, week, status)
CreateMatch(db, match) ==
    [db EXCEPT !.matches = Append(@,
        [LeagueID |-> match.LeagueID, HomeTeamID |-> match.HomeTeamID,
         AwayTeamID |-> match.AwayTeamID, Week |-> match.Week,
         HomeGoals |-> NULL, AwayGoals |-> NULL, Status |-> match.Status])]

\* UPDATE leagues SET status = $1 WHERE id = $2
UpdateLeagueStatus(db, leagueID, status) ==
    [db EXCEPT !.leagues[leagueID].Status = status]

\* GetMatchesByWeekAndLeague whose WHERE clause lacks the week
GetMatchesByWeekAndLeague_AnyWeek(db, leagueID, week) ==
    SelectSeq([i \in 1..Len(db.matches) |-> i],
              LAMBDA i : db.matches[i].LeagueID = leagueID)

\* SELECT ... FROM matches WHERE league_id = $1 AND week = $2 ORDER BY id
GetMatchesByWeekAndLeague(db, leagueID, week) ==
    SelectSeq([i \in 1..Len(db.matches) |-> i],
              LAMBDA i : db.matches[i].LeagueID = leagueID /\ db.matches[i].Week = week)

\* PlayMatch that stores the goals and leaves the status column alone
PlayMatch_KeepsStatus(db, matchID, homeGoals, awayGoals) ==
    [db EXCEPT !.matches[matchID] =
        [@ EXCEPT !.HomeGoals = homeGoals, !.AwayGoals = awayGoals]]

\* UPDATE matches SET home_goals, away_goals, status = 'played' WHERE id = $3
PlayMatch(db, matchID, homeGoals, awayGoals) ==
    [db EXCEPT !.matches[matchID] =
        [@ EXCEPT !.HomeGoals = homeGoals, !.AwayGoals = awayGoals, !.Status = "played"]]

\* points / wins / draws / losses of the side that scored `gf` and conceded `ga`
SidePoints_TwoForWin(gf, ga) == IF gf > ga THEN 2 ELSE IF gf < ga THEN 0 ELSE 1
SidePoints(gf, ga) == IF gf > ga THEN 3 ELSE IF gf < ga THEN 0 ELSE 1
SideWins(gf, ga) == IF gf > ga THEN 1 ELSE 0
SideDraws(gf, ga) == IF gf = ga THEN 1 ELSE 0
SideLosses(gf, ga) == IF gf < ga THEN 1 ELSE 0

\* UpdateStandingRow whose goal_difference is computed from the totals before
\* this match
UpdateStandingRow_StaleDifference(db, leagueID, teamID, gf, ga) ==
    IF <<leagueID, teamID>> \notin DOMAIN db.standings THEN db
    ELSE [db EXCEPT !.standings[<<leagueID, teamID>>] =
            [Points |-> @.Points + SidePoints(gf, ga),
             Played |-> @.Played + 1,
             Wins |-> @.Wins + SideWins(gf, ga),
             Draws |-> @.Draws + SideDraws(gf, ga),
             Losses |-> @.Losses + SideLosses(gf, ga),
             GoalsFor |-> @.GoalsFor + gf,
             GoalsAgainst |-> @.GoalsAgainst + ga,
             GoalDifference |-> @.GoalsFor - @.GoalsAgainst]]

\* UpdateStandingRow whose WHERE clause lacks the league: the team's row in
\* every league is updated
UpdateStandingRow_AnyLeague(db, leagueID, teamID, gf, ga) ==
    [db EXCEPT !.standings =
        [k \in DOMAIN db.standings |->
            IF k[2] # teamID THEN db.standings[k]
            ELSE [Points |-> db.standings[k].Points + SidePoints(gf, ga),
                  Played |-> db.standings[k].Played + 1,
                  Wins |-> db.standings[k].Wins + SideWins(gf, ga),
                  Draws |-> db.standings[k].Draws + SideDraws(gf, ga),
                  Losses |-> db.standings[k].Losses + SideLosses(gf, ga),
                  GoalsFor |-> db.standings[k].GoalsFor + gf,
                  GoalsAgainst |-> db.standings[k].GoalsAgainst + ga,
                  GoalDifference |-> db.standings[k].GoalsFor + gf
                                     - (db.standings[k].GoalsAgainst + ga)]]]

\* one UPDATE standings ... WHERE league_id = $7 AND team_id = $8 of
\* UpdateStandings: no row matched, nothing changes and no error is raised
UpdateStandingRow(db, leagueID, teamID, gf, ga) ==
    IF <<leagueID, teamID>> \notin DOMAIN db.standings THEN db
    ELSE [db EXCEPT !.standings[<<leagueID, teamID>>] =
            [Points |-> @.Points + SidePoints(gf, ga),
             Played |-> @.Played + 1,
             Wins |-> @.Wins + SideWins(gf, ga),
             Draws |-> @.Draws + SideDraws(gf, ga),
             Losses |-> @.Losses + SideLosses(gf, ga),
             GoalsFor |-> @.GoalsFor + gf,
             GoalsAgainst |-> @.GoalsAgainst + ga,
             GoalDifference |-> @.GoalsFor + gf - (@.GoalsAgainst + ga)]]

\* a variant that leaves current_week as it is
AdvanceLeagueWeek_KeepsWeek(db, leagueID) ==
    db

\* UPDATE leagues SET current_week = current_week + 1 WHERE id = $1
AdvanceLeagueWeek(db, leagueID) ==
    [db EXCEPT !.leagues[leagueID].CurrentWeek = @ + 1]

(***************************************************************************)
(* Request handlers.  A request in progress is a record `loc` (the         *)
(* handler's local variables and its position pc); a step of a handler is  *)
(* one statement sent to the store together with the local code up to the  *)
(* next one.  failAt numbers the store call of the request that returns an *)
(* error (0: none); calls counts the store calls made so far.              *)
(***************************************************************************)
NoLeague == [Status |-> "", CurrentWeek |-> 0]

FirstPc(op) ==
    CASE op = "create"  -> "create"
      [] op = "addTeam" -> "add_getLeague"
      [] op = "removeTeam" -> "rem_getLeague"
      [] op = "start"   -> "start_getLeague"
      [] op = "advance" -> "adv_getLeague"
      [] op = "playAll" -> "pa_getLeague"

NewRequest(op, lid, tid, seed, failAt) ==
    [op |-> op, lid |-> lid, tid |-> tid, seed |-> seed, failAt |-> failAt,
     pc |-> FirstPc(op), code |-> 0, calls |-> 0, draws |-> 0,
     league |-> NoLeague, teams |-> <<>>, queue |-> <<>>, week |-> 0,
     totalWeeks |-> 0, hg |-> 0, ag |-> 0, results |-> <<>>, created |-> 0,
     respStatus |-> ""]

R(db, loc) == [db |-> db, loc |-> loc]

\* the next store call of the request returns an error
Failing(loc) == loc.failAt = loc.calls + 1
Called(loc) == [loc EXCEPT !.calls = @ + 1]
Finish(loc, code) == [loc EXCEPT !.pc = "done", !.code = code]

\* GetLeagueByID without the handler's status check
GetLeagueByID_AnyStatus(db, loc, required, nextPc) ==
    LET c == Called(loc) IN
    IF Failing(loc) THEN R(db, Finish(c, 500))
    ELSE IF loc.lid \notin DOMAIN db.leagues THEN R(db, Finish(c, 404))
    ELSE LET lg == db.leagues[loc.lid] IN
         R(db, [c EXCEPT !.league = lg, !.respStatus = lg.Status, !.pc = nextPc])

\* GetLeagueByID and the handler's status check that follows it
\* (required = "": no status check)
\* GetLeagueByID whose caller answers a missing league like a failed
\* precondition
GetLeagueByID_NotFoundIsBadRequest(db, loc, required, nextPc) ==
    LET c == Called(loc) IN
    IF Failing(loc) THEN R(db, Finish(c, 500))
    ELSE IF loc.lid \notin DOMAIN db.leagues THEN R(db, Finish(c, 400))
    ELSE LET lg == db.leagues[loc.lid] IN
         IF required # "" /\ lg.Status # required
         THEN R(db, Finish([c EXCEPT !.league = lg, !.respStatus = lg.Status], 400))
         ELSE R(db, [c EXCEPT !.league = lg, !.respStatus = lg.Status, !.pc = nextPc])

GetLeagueByID(db, loc, required, nextPc) ==
    LET c == Called(loc) IN
    IF Failing(loc) THEN R(db, Finish(c, 500))
    ELSE IF loc.lid \notin DOMAIN db.leagues THEN R(db, Finish(c, 404))
    ELSE LET lg == db.leagues[loc.lid] IN
         IF required # "" /\ lg.Status # required
         THEN R(db, Finish([c EXCEPT !.league = lg, !.respStatus = lg.Status], 400))
         ELSE R(db, [c EXCEPT !.league = lg, !.respStatus = lg.Status, !.pc = nextPc])

CreateLeagueHandler(db, loc) ==
    LET c == Called(loc) IN
    IF Failing(loc) THEN R(db, Finish(c, 500))
    ELSE R(CreateLeague(db),
           Finish([c EXCEPT !.lid = Cardinality(DOMAIN db.leagues) + 1,
                            !.respStatus = "created"], 201))

AddTeamToLeagueHandler(db, loc) ==
    LET c == Called(loc) IN
    CASE loc.pc = "add_getLeague" -> GetLeagueByID(db, loc, "", "add_getTeam")
      [] loc.pc = "add_getTeam" ->
            IF Failing(loc) THEN R(db, Finish(c, 500))
            ELSE IF loc.tid \notin Teams THEN R(db, Finish(c, 404))
            ELSE R(db, [c EXCEPT !.pc = "add_addTeam"])
      [] loc.pc = "add_addTeam" ->
            IF Failing(loc) THEN R(db, Finish(c, 500))
            ELSE R(AddTeamToLeague(db, loc.lid, loc.tid),
                   [c EXCEPT !.pc = "add_initStanding"])
      [] loc.pc = "add_initStanding" ->
            IF Failing(loc) THEN R(db, Finish(c, 500))
            ELSE R(InitializeStanding(db, loc.lid, loc.tid), Finish(c, 201))

\* the handler, and inside it RemoveTeamFromLeague's three statements
RemoveTeamFromLeagueHandler(db, loc) ==
    LET c == Called(loc) IN
    CASE loc.pc = "rem_getLeague" -> GetLeagueByID(db, loc, "", "rem_getTeam")
      [] loc.pc = "rem_getTeam" ->
            IF Failing(loc) THEN R(db, Finish(c, 500))
            ELSE IF loc.tid \notin Teams THEN R(db, Finish(c, 404))
            ELSE R(db, [c EXCEPT !.pc = "rem_check"])
      [] loc.pc = "rem_check" ->
            IF Failing(loc) THEN R(db, Finish(c, 500))
            ELSE IF <<loc.lid, loc.tid>> \notin db.league_teams
                 THEN R(db, Finish(c, 400))
            ELSE R(db, [c EXCEPT !.pc = "rem_delStanding"])
      [] loc.pc = "rem_delStanding" ->
            IF Failing(loc) THEN R(db, Finish(c, 500))
            ELSE R(DeleteStanding(db, loc.lid, loc.tid),
                   [c EXCEPT !.pc = "rem_delTeam"])
      [] loc.pc = "rem_delTeam" ->
            IF Failing(loc) THEN R(db, Finish(c, 500))
            ELSE IF <<loc.lid, loc.tid>> \notin db.league_teams
                 THEN R(db, Finish(c, 500))
            ELSE R(DeleteLeagueTeam(db, loc.lid, loc.tid), Finish(c, 200))

StartLeagueHandler(db, loc) ==
    LET c == Called(loc) IN
    CASE loc.pc = "start_getLeague" ->
            GetLeagueByID(db, loc, "created", "start_getTeams")
      [] loc.pc = "start_getTeams" ->
            IF Failing(loc) THEN R(db, Finish(c, 500))
            ELSE LET teams == GetTeamsInLeague(db, loc.lid) IN
                 IF Len(teams) < 2 THEN R(db, Finish([c EXCEPT !.teams = teams], 400))
                 ELSE R(db, [c EXCEPT !.teams = teams,
                                      !.queue = generateRoundRobinMatches(teams, loc.lid),
                                      !.pc = "start_createMatch"])
      [] loc.pc = "start_createMatch" ->
            IF Failing(loc) THEN R(db, Finish(c, 500))
            ELSE R(CreateMatch(db, Head(loc.queue)),
                   [c EXCEPT !.queue = Tail(@), !.created = @ + 1,
                             !.pc = IF Tail(loc.queue) = <<>>
                                    THEN "start_updateStatus" ELSE "start_createMatch"])
      [] loc.pc = "start_updateStatus" ->
            IF Failing(loc) THEN R(db, Finish(c, 500))
            ELSE R(UpdateLeagueStatus(db, loc.lid, "started"),
                   Finish([c EXCEPT !.respStatus = "started",
                                    !.totalWeeks = calculateTotalWeeks(Len(loc.teams))],
                          200))

\* generateMatchResult: two team lookups, then simulateMatch, or
\* basicRandomGoals twice when a lookup fails
generateMatchResult(db, loc) ==
    LET m == db.matches[Head(loc.queue)]
        r1 == Rand(loc.seed, loc.draws)
        r2 == Rand(loc.seed, loc.draws + 1)
        fallback == loc.failAt = loc.calls + 1 \/ loc.failAt = loc.calls + 2
        made == IF loc.failAt = loc.calls + 1 THEN 1 ELSE 2
        goals == IF fallback
                 THEN <<basicRandomGoals(r1), basicRandomGoals(r2)>>
                 ELSE simulateMatch(TeamStrength(m.HomeTeamID),
                                    TeamStrength(m.AwayTeamID), r1, r2)
    IN  R(db, [loc EXCEPT !.calls = @ + made, !.draws = @ + 2,
                          !.hg = goals[1], !.ag = goals[2], !.pc = "m_play"])

\* the body of the per-match loop shared by AdvanceWeekHandler and
\* PlayAllMatchesHandler; the head of loc.queue is the match being played
PlayWeekMatch(db, loc) ==
    LET c == Called(loc)
        id == Head(loc.queue)
        m == db.matches[id]
    IN
    CASE loc.pc = "m_sim" -> generateMatchResult(db, loc)
      [] loc.pc = "m_play" ->
            IF Failing(loc) THEN R(db, Finish(c, 500))
            ELSE R(PlayMatch(db, id, loc.hg, loc.ag), [c EXCEPT !.pc = "m_home"])
      [] loc.pc = "m_home" ->
            \* UpdateStandings, first statement
            IF Failing(loc) THEN R(db, Finish(c, 500))
            ELSE R(UpdateStandingRow(db, loc.lid, m.HomeTeamID, loc.hg, loc.ag),
                   [c EXCEPT !.pc = "m_away"])
      [] loc.pc = "m_away" ->
            \* UpdateStandings, second statement
            IF Failing(loc) THEN R(db, Finish(c, 500))
            ELSE R(UpdateStandingRow(db, loc.lid, m.AwayTeamID, loc.ag, loc.hg),
                   [c EXCEPT !.pc = "m_names"])
      [] loc.pc = "m_names" ->
            \* the two team lookups for the response
            IF loc.failAt = loc.calls + 1 THEN R(db, Finish(c, 500))
            ELSE IF loc.failAt = loc.calls + 2
                 THEN R(db, Finish([loc EXCEPT !.calls = @ + 2], 500))
            ELSE R(db, [loc EXCEPT
                        !.calls = @ + 2,
                        !.results = Append(@, [ID |-> id, HomeGoals |-> loc.hg,
                                               AwayGoals |-> loc.ag]),
                        !.queue = Tail(@),
                        !.pc = IF Tail(loc.queue) # <<>> THEN "m_sim"
                               ELSE IF loc.op = "advance" THEN "adv_advance"
                               ELSE "pa_advance"])

AdvanceWeekHandler(db, loc) ==
    LET c == Called(loc) IN
    CASE loc.pc = "adv_getLeague" ->
            LET r == GetLeagueByID(db, loc, "started", "adv_getMatches")
            IN  R(r.db, [r.loc EXCEPT !.week = r.loc.league.CurrentWeek + 1])
      [] loc.pc = "adv_getMatches" ->
            IF Failing(loc) THEN R(db, Finish(c, 500))
            ELSE LET ms == GetMatchesByWeekAndLeague(db, loc.lid, loc.week) IN
                 IF Len(ms) = 0 THEN R(db, Finish(c, 400))
                 ELSE R(db, [c EXCEPT !.queue = ms, !.pc = "m_sim"])
      [] loc.pc = "adv_advance" ->
            IF Failing(loc) THEN R(db, Finish(c, 500))
            ELSE R(AdvanceLeagueWeek(db, loc.lid), [c EXCEPT !.pc = "adv_nextWeek"])
      [] loc.pc = "adv_nextWeek" ->
            \* a failed lookup leaves nextWeekMatches nil: its length is 0
            LET n == IF Failing(loc) THEN 0
                     ELSE Len(GetMatchesByWeekAndLeague(db, loc.lid, loc.week + 1))
            IN  IF n = 0 THEN R(db, [c EXCEPT !.pc = "adv_finish"])
                ELSE R(db, Finish(c, 200))
      [] loc.pc = "adv_finish" ->
            \* a failed status update is logged and ignored
            R(IF Failing(loc) THEN db ELSE UpdateLeagueStatus(db, loc.lid, "finished"),
              Finish([c EXCEPT !.respStatus = "finished"], 200))

\* the loop test of PlayAllMatchesHandler: currentWeek <= totalWeeks
PlayAllLoopPc(week, totalWeeks) ==
    IF week <= totalWeeks THEN "pa_getMatches" ELSE "pa_finish"

PlayAllMatchesHandler(db, loc) ==
    LET c == Called(loc) IN
    CASE loc.pc = "pa_getLeague" -> GetLeagueByID(db, loc, "started", "pa_getTeams")
      [] loc.pc = "pa_getTeams" ->
            IF Failing(loc) THEN R(db, Finish(c, 500))
            ELSE LET teams == GetTeamsInLeague(db, loc.lid)
                     totalWeeks == calculateTotalWeeks(Len(teams))
                     currentWeek == loc.league.CurrentWeek + 1
                 IN  R(db, [c EXCEPT !.teams = teams, !.totalWeeks = totalWeeks,
                                     !.week = currentWeek,
                                     !.pc = PlayAllLoopPc(currentWeek, totalWeeks)])
      [] loc.pc = "pa_getMatches" ->
            IF Failing(loc) THEN R(db, Finish(c, 500))
            ELSE LET ms == GetMatchesByWeekAndLeague(db, loc.lid, loc.week) IN
                 IF Len(ms) = 0 THEN R(db, [c EXCEPT !.pc = "pa_finish"])
                 ELSE R(db, [c EXCEPT !.queue = ms, !.pc = "m_sim"])
      [] loc.pc = "pa_advance" ->
            IF Failing(loc) THEN R(db, Finish(c, 500))
            ELSE R(AdvanceLeagueWeek(db, loc.lid),
                   [c EXCEPT !.week = @ + 1,
                             !.pc = PlayAllLoopPc(loc.week + 1, loc.totalWeeks)])
      [] loc.pc = "pa_finish" ->
            IF Failing(loc) THEN R(db, Finish(c, 500))
            ELSE R(UpdateLeagueStatus(db, loc.lid, "finished"),
                   Finish([c EXCEPT !.respStatus = "finished"], 200))

MatchPcs == {"m_sim", "m_play", "m_home", "m_away", "m_names"}

\* one step of the request loc against the store db
Step(db, loc) ==
    IF loc.pc \in MatchPcs THEN PlayWeekMatch(db, loc)
    ELSE CASE loc.op = "create"     -> CreateLeagueHandler(db, loc)
           [] loc.op = "addTeam"    -> AddTeamToLeagueHandler(db, loc)
           [] loc.op = "removeTeam" -> RemoveTeamFromLeagueHandler(db, loc)
           [] loc.op = "start"      -> StartLeagueHandler(db, loc)
           [] loc.op = "advance"    -> AdvanceWeekHandler(db, loc)
           [] loc.op = "playAll"    -> PlayAllMatchesHandler(db, loc)

\* a request served from its current position to its response
RECURSIVE Run(_, _)
Run(db, loc) ==
    IF loc.pc = "done" THEN R(db, loc)
    ELSE LET r == Step(db, loc) IN Run(r.db, r.loc)

\* what a request leaves behind: its response
Response(loc) ==
    [op |-> loc.op, lid |-> loc.lid, tid |-> loc.tid, code |-> loc.code,
     status |-> loc.respStatus, week |-> loc.week, results |-> loc.results,
     created |-> loc.created, totalWeeks |-> loc.totalWeeks,
     teamsCount |-> Len(loc.teams)]

(***************************************************************************)
(* Spec: requests served one at a time, each handler one action, every     *)
(* store call succeeding.                                                  *)
(***************************************************************************)
Workers == {1, 2}
Idle == [op |-> "idle"]
NoResponse ==
    [op |-> "none", lid |-> 0, tid |-> 0, code |-> 0, status |-> "", week |-> 0,
     results |-> <<>>, created |-> 0, totalWeeks |-> 0, teamsCount |-> 0]

InitStore ==
    /\ leagues = <<>>
    /\ league_teams = {}
    /\ standings = <<>>
    /\ matches = <<>>
    /\ resp = NoResponse
    /\ procs = [w \in Workers |-> Idle]
    /\ begun = 0
    /\ clock \in Seeds
    /\ failures = 0
    /\ memberChanges = 0

NoLedgerOp == [op |-> "none", id |-> 0, old |-> <<>>, new |-> <<>>]
NoSim == [pc |-> "idle"]
NoPredict == [pc |-> "idle"]

InitGenIdle ==
    /\ genTeams = <<>>
    /\ genMatches = <<>>
    /\ genTotalWeeks = 0
    /\ genDone = FALSE
    /\ ledgerOp = NoLedgerOp
    /\ sim = NoSim
    /\ pred = NoPredict

Init == InitStore /\ InitGenIdle

\* rand.Seed(time.Now().UnixNano()) before every draw: what a request draws
\* is decided by the clock, which has moved on with every week played
SeedAt(lid) ==
    clock + (IF lid \in DOMAIN leagues THEN leagues[lid].CurrentWeek ELSE 0)

\* one request served from start to end; failAt is the store call that fails
Serve(op, lid, tid, failAt) ==
    LET r == Run(DB, NewRequest(op, lid, tid, SeedAt(lid), failAt)) IN
    /\ leagues' = r.db.leagues
    /\ league_teams' = r.db.league_teams
    /\ standings' = r.db.standings
    /\ matches' = r.db.matches
    /\ resp' = Response(r.loc)
    /\ UNCHANGED <<procs, begun, clock, genVars>>

\* the league lid has left status created
Late(lid) == lid \in DOMAIN leagues /\ leagues[lid].Status # "created"

\* removals, and additions to a league that has left status created, are
\* counted, and are not combined with a storage failure
MayChange == memberChanges < MaxMemberChanges /\ failures = 0

\* teams join a league in id order: the team added is the first non-member
NextToJoin(lid) ==
    LET out == {t \in Teams : <<lid, t>> \notin league_teams}
    IN  IF out = {} THEN {} ELSE {CHOOSE t \in out : \A u \in out : t <= u}

\* the requests a client can send in the current state
Requests ==
    {[op |-> "create", lid |-> 0, tid |-> 0] :
        x \in {y \in {0} : Cardinality(DOMAIN leagues) < Cardinality(LeagueIDs)}}
    \cup {[op |-> "addTeam", lid |-> l, tid |-> t] :
        <<l, t>> \in {p \in LeagueIDs \X Teams : p[2] \in NextToJoin(p[1]) /\ (Late(p[1]) => MayChange)}}
    \cup {[op |-> "removeTeam", lid |-> l, tid |-> t] :
        <<l, t>> \in {p \in LeagueIDs \X Teams : MayChange}}
    \cup {[op |-> o, lid |-> l, tid |-> 0] :
        <<o, l>> \in {"start", "advance", "playAll"} \X LeagueIDs}

\* the request q served with every store call succeeding
Served(q) ==
    /\ Serve(q.op, q.lid, q.tid, 0)
    /\ memberChanges' = IF q.op = "removeTeam" \/ (q.op = "addTeam" /\ Late(q.lid))
                         THEN memberChanges + 1 ELSE memberChanges
    /\ UNCHANGED failures

CreateLeagueRequest ==
    \E q \in Requests : q.op = "create" /\ Served(q)

AddTeamRequest ==
    \E q \in Requests : q.op = "addTeam" /\ Served(q)

RemoveTeamRequest ==
    \E q \in Requests : q.op = "removeTeam" /\ Served(q)

StartRequest ==
    \E q \in Requests : q.op = "start" /\ Served(q)

AdvanceWeekRequest ==
    \E q \in Requests : q.op = "advance" /\ Served(q)

PlayAllRequest ==
    \E q \in Requests : q.op = "playAll" /\ Served(q)

Next ==
    \/ CreateLeagueRequest
    \/ AddTeamRequest
    \/ RemoveTeamRequest
    \/ StartRequest
    \/ AdvanceWeekRequest
    \/ PlayAllRequest

Spec == Init /\ [][Next]_vars

(***************************************************************************)
(* SpecLookup: the same requests, and season requests that name a league   *)
(* id the store has not issued                                             *)
(***************************************************************************)
SeasonOps == {"start", "advance", "playAll"}

\* the serial id the leagues table has not issued yet
UnknownLeagueID == Cardinality(DOMAIN leagues) + 1

UnknownLeagueRequest ==
    \E op \in SeasonOps :
        /\ Serve(op, UnknownLeagueID, 0, 0)
        /\ UNCHANGED <<failures, memberChanges>>

NextLookup ==
    \/ Next
    \/ UnknownLeagueRequest

SpecLookup == Init /\ [][NextLookup]_vars

(***************************************************************************)
(* SpecView: the same requests, and the read-only standings accessor.      *)
(* It returns the rows in any order that its ordering key allows.          *)
(***************************************************************************)
\* the ordering key without the team name
OrderKey_NoName(row, teamID) ==
    <<0 - row.Points, 0 - row.GoalDifference, 0 - row.GoalsFor, 0>>

\* points desc, goal_difference desc, goals_for desc, team name asc, as a
\* tuple to be ordered ascending (team names are ordered as team ids)
OrderKey(row, teamID) ==
    <<0 - row.Points, 0 - row.GoalDifference, 0 - row.GoalsFor, teamID>>

\* lexicographic k1 <= k2 on tuples of equal length
RECURSIVE KeyLeq(_, _)
KeyLeq(k1, k2) ==
    IF k1 = <<>> THEN TRUE
    ELSE IF Head(k1) < Head(k2) THEN TRUE
    ELSE IF Head(k1) > Head(k2) THEN FALSE
    ELSE KeyLeq(Tail(k1), Tail(k2))

\* the orders in which `get` may return the rows of a league
Rankings(db, leagueID) ==
    LET ts == {t \in Teams : <<leagueID, t>> \in DOMAIN db.standings}
        key(t) == OrderKey(db.standings[<<leagueID, t>>], t)
    IN  {p \in Perms(ts) :
            /\ Len(p) = Cardinality(ts)
            /\ \A i \in 1..Len(p) : \A j \in 1..Len(p) :
                   i < j => KeyLeq(key(p[i]), key(p[j]))}

ViewStandingsRequest ==
    \E l \in DOMAIN leagues : \E ranking \in Rankings(DB, l) :
        /\ resp' = [NoResponse EXCEPT !.op = "standings", !.lid = l, !.code = 200,
                                      !.results = ranking]
        /\ UNCHANGED <<dbVars, procs, begun, clock, failures, memberChanges, genVars>>

NextView ==
    \/ Next
    \/ ViewStandingsRequest

SpecView == Init /\ [][NextView]_vars

(***************************************************************************)
(* SpecFault: the same requests, one of whose store calls may fail         *)
(***************************************************************************)
\* the store calls the request makes when none of them fails
CallsOf(q) == Run(DB, NewRequest(q.op, q.lid, q.tid, SeedAt(q.lid), 0)).loc.calls

\* the request q served with one of its store calls failing
Failed(q) ==
    /\ failures < MaxFailures
    /\ memberChanges = 0
    /\ \E failAt \in 1..CallsOf(q) : Serve(q.op, q.lid, q.tid, failAt)
    /\ failures' = failures + 1
    /\ UNCHANGED memberChanges

FailedCreateLeague ==
    \E q \in Requests : q.op = "create" /\ Failed(q)

FailedAddTeam ==
    \E q \in Requests : q.op = "addTeam" /\ Failed(q)

FailedRemoveTeam ==
    \E q \in Requests : q.op = "removeTeam" /\ Failed(q)

FailedStart ==
    \E q \in Requests : q.op = "start" /\ Failed(q)

FailedAdvanceWeek ==
    \E q \in Requests : q.op = "advance" /\ Failed(q)

FailedPlayAll ==
    \E q \in Requests : q.op = "playAll" /\ Failed(q)

NextFault ==
    \/ Next
    \/ FailedCreateLeague
    \/ FailedAddTeam
    \/ FailedRemoveTeam
    \/ FailedStart
    \/ FailedAdvanceWeek
    \/ FailedPlayAll

SpecFault == Init /\ [][NextFault]_vars

(***************************************************************************)
(* SpecConc: two workers serve season requests concurrently.  Every store  *)
(* call is one atomic step; the handlers hold no lock and open no          *)
(* transaction, so the steps of two requests interleave freely.            *)
(***************************************************************************)
Members(lid) == {t \in Teams : <<lid, t>> \in league_teams}

\* a worker takes a request; the workers are interchangeable, so the second
\* takes one only while the first is busy
Begin(w) ==
    /\ procs[w] = Idle
    /\ \A v \in Workers : v < w => procs[v] # Idle
    /\ begun < MaxConcRequests
    /\ begun' = begun + 1
    /\ \E op \in SeasonOps : \E l \in DOMAIN leagues :
           /\ Cardinality(Members(l)) <= MaxConcTeams
           /\ procs' = [procs EXCEPT ![w] = NewRequest(op, l, 0, SeedAt(l), 0)]
    /\ UNCHANGED <<dbVars, resp, clock, failures, memberChanges, genVars>>

\* the request of worker w makes its next store call; with its last one it
\* responds and the worker is free again
StepProc(w) ==
    /\ procs[w] # Idle
    /\ LET r == Step(DB, procs[w]) IN
           /\ leagues' = r.db.leagues
           /\ league_teams' = r.db.league_teams
           /\ standings' = r.db.standings
           /\ matches' = r.db.matches
           /\ procs' = [procs EXCEPT ![w] = IF r.loc.pc = "done" THEN Idle ELSE r.loc]
           /\ resp' = IF r.loc.pc = "done" THEN Response(r.loc) ELSE resp
    /\ UNCHANGED <<begun, clock, failures, memberChanges, genVars>>

\* the league is set up by requests served while no season request is in flight
Quiet == \A w \in Workers : procs[w] = Idle

SetupCreateLeague ==
    Quiet /\ \E q \in Requests : q.op = "create" /\ Served(q)

SetupAddTeam ==
    Quiet /\ \E q \in Requests : q.op = "addTeam" /\ Served(q)

SetupRemoveTeam ==
    Quiet /\ \E q \in Requests : q.op = "removeTeam" /\ Served(q)

NextConc ==
    \/ SetupCreateLeague
    \/ SetupAddTeam
    \/ SetupRemoveTeam
    \/ \E w \in Workers : Begin(w)
    \/ \E w \in Workers : StepProc(w)

SpecConc == Init /\ [][NextConc]_vars

(***************************************************************************)
(* SpecGen: the generator applied to every ordered list of distinct teams  *)
(***************************************************************************)
InitGen ==
    /\ genTeams \in Perms(1..MaxGenTeams)
    /\ genMatches = <<>>
    /\ genTotalWeeks = 0
    /\ genDone = FALSE
    /\ ledgerOp = NoLedgerOp
    /\ sim = NoSim
    /\ pred = NoPredict
    /\ InitStore

Generate ==
    /\ ~genDone
    /\ genMatches' = generateRoundRobinMatches(genTeams, 1)
    /\ genTotalWeeks' = calculateTotalWeeks(Len(genTeams))
    /\ genDone' = TRUE
    /\ UNCHANGED <<genTeams, ledgerOp, sim, pred, dbVars, resp, procs, begun, clock,
                   failures, memberChanges>>

NextGen == Generate

SpecGen == InitGen /\ [][NextGen]_vars

(***************************************************************************)
(* SpecLedger: results recorded in two started leagues that share their    *)
(* team ids, with every goal pair up to MaxLedgerGoals, and played results *)
(* edited.                                                                 *)
(***************************************************************************)
\* the teams of each ledger league
MaxLedgerTeams == 3
\* the goals a side scores in a recorded or edited result
MaxLedgerGoals == 2
\* the results recorded per behaviour
MaxRecorded == 2

LedgerLeagues == {1, 2}
EmptyDB == [leagues |-> <<>>, league_teams |-> {}, standings |-> <<>>, matches |-> <<>>]

\* the store after the requests reqs were served in order, none failing
RECURSIVE ServeAll(_, _)
ServeAll(db, reqs) ==
    IF reqs = <<>> THEN db
    ELSE ServeAll(Run(db, NewRequest(Head(reqs)[1], Head(reqs)[2], Head(reqs)[3], 0, 0)).db,
                  Tail(reqs))

\* create a league, add MaxLedgerTeams teams, start it
SeasonSetup(lid) ==
    <<<<"create", lid, 0>>>>
    \o [t \in 1..MaxLedgerTeams |-> <<"addTeam", lid, t>>]
    \o <<<<"start", lid, 0>>>>

StartedLeagues == ServeAll(ServeAll(EmptyDB, SeasonSetup(1)), SeasonSetup(2))

\* UpdateStandings: the home row's UPDATE, then the away row's
UpdateStandings(db, leagueID, homeTeamID, awayTeamID, homeGoals, awayGoals) ==
    UpdateStandingRow(UpdateStandingRow(db, leagueID, homeTeamID, homeGoals, awayGoals),
                      leagueID, awayTeamID, awayGoals, homeGoals)

\* the body of the per-match loop with the goals given: PlayMatch, then
\* UpdateStandings
RecordMatchResult(db, matchID, homeGoals, awayGoals) ==
    LET m == db.matches[matchID]
    IN  UpdateStandings(PlayMatch(db, matchID, homeGoals, awayGoals),
                        m.LeagueID, m.HomeTeamID, m.AwayTeamID, homeGoals, awayGoals)

\* Ledger.reverse for one row: the fields apply incremented are decremented
\* by the same amounts and goal_difference is recomputed
ReverseStandingRow_KeepsPoints(db, leagueID, teamID, gf, ga) ==
    IF <<leagueID, teamID>> \notin DOMAIN db.standings THEN db
    ELSE [db EXCEPT !.standings[<<leagueID, teamID>>] =
            [Points |-> @.Points,
             Played |-> @.Played - 1,
             Wins |-> @.Wins - SideWins(gf, ga),
             Draws |-> @.Draws - SideDraws(gf, ga),
             Losses |-> @.Losses - SideLosses(gf, ga),
             GoalsFor |-> @.GoalsFor - gf,
             GoalsAgainst |-> @.GoalsAgainst - ga,
             GoalDifference |-> @.GoalsFor - gf - (@.GoalsAgainst - ga)]]

ReverseStandingRow(db, leagueID, teamID, gf, ga) ==
    IF <<leagueID, teamID>> \notin DOMAIN db.standings THEN db
    ELSE [db EXCEPT !.standings[<<leagueID, teamID>>] =
            [Points |-> @.Points - SidePoints(gf, ga),
             Played |-> @.Played - 1,
             Wins |-> @.Wins - SideWins(gf, ga),
             Draws |-> @.Draws - SideDraws(gf, ga),
             Losses |-> @.Losses - SideLosses(gf, ga),
             GoalsFor |-> @.GoalsFor - gf,
             GoalsAgainst |-> @.GoalsAgainst - ga,
             GoalDifference |-> @.GoalsFor - gf - (@.GoalsAgainst - ga)]]

ReverseStandings(db, leagueID, homeTeamID, awayTeamID, homeGoals, awayGoals) ==
    ReverseStandingRow(ReverseStandingRow(db, leagueID, homeTeamID, homeGoals, awayGoals),
                       leagueID, awayTeamID, awayGoals, homeGoals)

\* editResult on a played fixture, atomic: Ledger.reverse(old result),
\* Ledger.apply(new result), then the fixture's stored goals are overwritten
EditMatchResult(db, matchID, newHomeGoals, newAwayGoals) ==
    LET m == db.matches[matchID]
        reversed == ReverseStandings(db, m.LeagueID, m.HomeTeamID, m.AwayTeamID,
                                     m.HomeGoals, m.AwayGoals)
        applied == UpdateStandings(reversed, m.LeagueID, m.HomeTeamID, m.AwayTeamID,
                                   newHomeGoals, newAwayGoals)
    IN  [applied EXCEPT !.matches[matchID] =
            [@ EXCEPT !.HomeGoals = newHomeGoals, !.AwayGoals = newAwayGoals]]

InitLedger ==
    /\ leagues = StartedLeagues.leagues
    /\ league_teams = StartedLeagues.league_teams
    /\ standings = StartedLeagues.standings
    /\ matches = StartedLeagues.matches
    /\ resp = NoResponse
    /\ procs = [w \in Workers |-> Idle]
    /\ begun = 0
    /\ clock = 0
    /\ failures = 0
    /\ memberChanges = 0
    /\ InitGenIdle

LedgerGoals == 0..MaxLedgerGoals
ScheduledIDs(lid) ==
    {k \in DOMAIN matches : matches[k].LeagueID = lid /\ matches[k].Status = "scheduled"}
PlayedIDs == {k \in DOMAIN matches : matches[k].Status = "played"}

SetLedger(db) ==
    /\ leagues' = db.leagues
    /\ league_teams' = db.league_teams
    /\ standings' = db.standings
    /\ matches' = db.matches
    /\ UNCHANGED <<resp, procs, begun, clock, failures, memberChanges,
                   genTeams, genMatches, genTotalWeeks, genDone, sim, pred>>

\* the next scheduled fixture of a league is played with the goals hg, ag
RecordResult ==
    \E lid \in LedgerLeagues, hg \in LedgerGoals, ag \in LedgerGoals :
        /\ Cardinality(PlayedIDs) < MaxRecorded
        /\ ScheduledIDs(lid) # {}
        /\ LET id == CHOOSE k \in ScheduledIDs(lid) : \A j \in ScheduledIDs(lid) : k <= j
           IN  /\ SetLedger(RecordMatchResult(DB, id, hg, ag))
               /\ ledgerOp' = [op |-> "record", id |-> id, old |-> <<>>, new |-> <<hg, ag>>]

\* a played fixture's result is replaced by the goals hg, ag
EditResult ==
    \E id \in PlayedIDs, hg \in LedgerGoals, ag \in LedgerGoals :
        /\ SetLedger(EditMatchResult(DB, id, hg, ag))
        /\ ledgerOp' = [op |-> "edit", id |-> id,
                        old |-> <<matches[id].HomeGoals, matches[id].AwayGoals>>,
                        new |-> <<hg, ag>>]

NextLedger ==
    \/ RecordResult
    \/ EditResult

SpecLedger == InitLedger /\ [][NextLedger]_vars

(***************************************************************************)
(* SpecSim: generateMatchResult applied to strengths inside and outside    *)
(* 0..100 and to every draw of rand.Intn(100); the home side's goals are   *)
(* drawn first, then the away side's. When a team lookup failed the two    *)
(* sides come from basicRandomGoals.                                       *)
(***************************************************************************)
\* the strength rating is 0..MaxStrength
MaxStrength == 100
\* rand.Intn(RandRange)
RandRange == 100
\* how far outside 0..MaxStrength the strengths handed to the simulator go
MaxStrengthExcess == 25

SimHomeStrengths == (0 - MaxStrengthExcess)..(MaxStrength + MaxStrengthExcess)
SimAwayStrengths == {0 - MaxStrengthExcess, 0, MaxStrength, MaxStrength + MaxStrengthExcess}
Draws == 0..(RandRange - 1)

InitSim ==
    /\ sim \in [pc : {"ready"}, lookup : {TRUE}, homeStrength : SimHomeStrengths,
                awayStrength : SimAwayStrengths, r : {NULL},
                homeGoals : {NULL}, awayGoals : {NULL}]
               \cup
               [pc : {"ready"}, lookup : {FALSE}, homeStrength : {NULL},
                awayStrength : {NULL}, r : {NULL},
                homeGoals : {NULL}, awayGoals : {NULL}]
    /\ genTeams = <<>>
    /\ genMatches = <<>>
    /\ genTotalWeeks = 0
    /\ genDone = FALSE
    /\ ledgerOp = NoLedgerOp
    /\ pred = NoPredict
    /\ leagues = <<>>
    /\ league_teams = {}
    /\ standings = <<>>
    /\ matches = <<>>
    /\ resp = NoResponse
    /\ procs = [w \in Workers |-> Idle]
    /\ begun = 0
    /\ clock = 0
    /\ failures = 0
    /\ memberChanges = 0

SetSim(next) ==
    /\ sim' = next
    /\ UNCHANGED <<dbVars, resp, procs, begun, clock, failures, memberChanges,
                   genTeams, genMatches, genTotalWeeks, genDone, ledgerOp, pred>>

\* simulateMatch, first call of generateGoalsFromExpectancy: the home side
SimulateHome ==
    \E r \in Draws :
        /\ sim.pc = "ready" /\ sim.lookup
        /\ SetSim([sim EXCEPT !.pc = "home", !.r = r, !.homeGoals =
                      simulateMatch(sim.homeStrength, sim.awayStrength, r, r)[1]])

\* simulateMatch, second call of generateGoalsFromExpectancy: the away side
SimulateAway ==
    \E r \in Draws :
        /\ sim.pc = "home" /\ sim.lookup
        /\ SetSim([sim EXCEPT !.pc = "done", !.r = r, !.awayGoals =
                      simulateMatch(sim.homeStrength, sim.awayStrength, r, r)[2]])

\* GetTeamByID failed: return lh.basicRandomGoals(), lh.basicRandomGoals()
FallbackHome ==
    \E r \in Draws :
        /\ sim.pc = "ready" /\ ~sim.lookup
        /\ SetSim([sim EXCEPT !.pc = "home", !.r = r, !.homeGoals = basicRandomGoals(r)])

FallbackAway ==
    \E r \in Draws :
        /\ sim.pc = "home" /\ ~sim.lookup
        /\ SetSim([sim EXCEPT !.pc = "done", !.r = r, !.awayGoals = basicRandomGoals(r)])

NextSim ==
    \/ SimulateHome
    \/ SimulateAway
    \/ FallbackHome
    \/ FallbackAway

SpecSim == InitSim /\ [][NextSim]_vars

(***************************************************************************)
(* SpecPredict: predict on a league of three teams with at most            *)
(* MaxRemaining fixtures left.  The trials are handed to two workers; each *)
(* trial clones the snapshot, simulates the remaining fixtures on its copy *)
(* and credits its champion to its worker's tally; the tallies are summed  *)
(* in any order.                                                           *)
(***************************************************************************)
\* the trials of one predict call
MaxTrials == 3
\* the fixtures left to simulate when predict is called
MaxRemaining == 2

PredictTeams == {1, 2, 3}
\* the draws of rand.Intn(100) a trial may get
PredictDraws == {10, 99}

\* league 1 of PredictTeams, started, `weeks` weeks advanced
PredictStore(weeks) ==
    ServeAll(EmptyDB,
             <<<<"create", 1, 0>>>>
             \o [k \in 1..Cardinality(PredictTeams) |->
                    <<"addTeam", 1, SetToSortedSeq(PredictTeams)[k]>>]
             \o <<<<"start", 1, 0>>>>
             \o [k \in 1..weeks |-> <<"advance", 1, 0>>])

PredictWeeks ==
    {k \in 0..(2 * Cardinality(PredictTeams)) :
        Cardinality({i \in DOMAIN PredictStore(k).matches :
            PredictStore(k).matches[i].Status = "scheduled"}) <= MaxRemaining}

NoTrial == [busy |-> FALSE, queue |-> <<>>, standings |-> <<>>, played |-> <<>>]
ZeroTally == [t \in PredictTeams |-> 0]

InitPredict ==
    /\ \E k \in PredictWeeks :
        /\ leagues = PredictStore(k).leagues
        /\ league_teams = PredictStore(k).league_teams
        /\ standings = PredictStore(k).standings
        /\ matches = PredictStore(k).matches
    /\ resp = NoResponse
    /\ procs = [w \in Workers |-> Idle]
    /\ begun = 0
    /\ clock = 0
    /\ failures = 0
    /\ memberChanges = 0
    /\ InitGenIdle

SetPredict(next) ==
    /\ pred' = next
    /\ UNCHANGED <<dbVars, resp, procs, begun, clock, failures, memberChanges,
                   genTeams, genMatches, genTotalWeeks, genDone, ledgerOp, sim>>

\* predict(league): the snapshot of the standings and of the not-yet-played
\* fixtures in week order; a league without remaining fixtures gets one
\* trial
StartPredict ==
    \E l \in DOMAIN leagues :
        /\ pred.pc = "idle"
        /\ LET remaining == SetToSortedSeq(ScheduledIDs(l))
               trials == IF remaining = <<>> THEN 1 ELSE MaxTrials
           IN  SetPredict([pc |-> "running", lid |-> l, snapshot |-> standings,
                           remaining |-> remaining, trials |-> trials, todo |-> trials,
                           work |-> [w \in Workers |-> NoTrial],
                           tally |-> [w \in Workers |-> ZeroTally],
                           merged |-> {}, total |-> ZeroTally])

\* a worker clones the trial's standings that another trial is working on,
\* instead of the snapshot
TrialClone_SharesStandings(w) ==
    LET others == {v \in Workers : v # w /\ pred.work[v].busy}
    IN  [busy |-> TRUE, queue |-> pred.remaining,
         standings |-> IF others = {} THEN pred.snapshot
                       ELSE pred.work[CHOOSE v \in others : TRUE].standings,
         played |-> <<>>]

\* the private copy a trial starts from
TrialClone(w) ==
    [busy |-> TRUE, queue |-> pred.remaining, standings |-> pred.snapshot,
     played |-> <<>>]

\* a worker takes the next trial
BeginTrial ==
    \E w \in Workers :
        /\ pred.pc = "running"
        /\ pred.todo > 0
        /\ ~pred.work[w].busy
        /\ SetPredict([pred EXCEPT !.todo = @ - 1, !.work[w] = TrialClone(w)])

\* the trial simulates its next remaining fixture and applies the result to
\* its own standings with Ledger.apply
TrialStep ==
    \E w \in Workers, r1 \in PredictDraws, r2 \in PredictDraws :
        /\ pred.pc = "running"
        /\ pred.work[w].busy
        /\ pred.work[w].queue # <<>>
        /\ LET id == Head(pred.work[w].queue)
               m == matches[id]
               goals == simulateMatch(TeamStrength(m.HomeTeamID),
                                      TeamStrength(m.AwayTeamID), r1, r2)
               applied == UpdateStandings([DB EXCEPT !.standings = pred.work[w].standings],
                                          m.LeagueID, m.HomeTeamID, m.AwayTeamID,
                                          goals[1], goals[2]).standings
           IN  SetPredict([pred EXCEPT !.work[w] =
                   [@ EXCEPT !.queue = Tail(@), !.standings = applied,
                             !.played = Append(@, <<id, goals[1], goals[2]>>)]])

\* a tally that credits every team level on points with the top team
CreditChampion_AllLevelOnPoints(tally, trialStandings, lid) ==
    LET top == CHOOSE r \in Rankings([standings |-> trialStandings], lid) : TRUE
    IN  [t \in DOMAIN tally |->
            IF <<lid, t>> \in DOMAIN trialStandings
               /\ trialStandings[<<lid, t>>].Points = trialStandings[<<lid, top[1]>>].Points
            THEN tally[t] + 1 ELSE tally[t]]

\* the trial's champion is the team ranked first by the ordering rule of
\* get; its tally is incremented
CreditChampion(tally, trialStandings, lid) ==
    LET top == CHOOSE r \in Rankings([standings |-> trialStandings], lid) : TRUE
    IN  [tally EXCEPT ![top[1]] = @ + 1]

\* the trial has no fixture left: its champion is credited
EndTrial ==
    \E w \in Workers :
        /\ pred.pc = "running"
        /\ pred.work[w].busy
        /\ pred.work[w].queue = <<>>
        /\ SetPredict([pred EXCEPT
               !.tally[w] = CreditChampion(@, pred.work[w].standings, pred.lid),
               !.work[w] = NoTrial])

\* all trials are done: the workers' tallies are summed, in any order
MergeTally ==
    \E w \in Workers :
        /\ pred.pc = "running"
        /\ pred.todo = 0
        /\ \A v \in Workers : ~pred.work[v].busy
        /\ w \notin pred.merged
        /\ SetPredict([pred EXCEPT
               !.total = [t \in PredictTeams |-> @[t] + pred.tally[w][t]],
               !.merged = @ \cup {w},
               !.pc = IF pred.merged \cup {w} = Workers THEN "done" ELSE "running"])

NextPredict ==
    \/ StartPredict
    \/ BeginTrial
    \/ TrialStep
    \/ EndTrial
    \/ MergeTally

SpecPredict == InitPredict /\ [][NextPredict]_vars

(***************************************************************************)
(* Properties of the fixture generator (SpecGen)                           *)
(***************************************************************************)
GenN == Len(genTeams)

\* the number of generated fixtures with home h and away a
GenPairCount(h, a) ==
    Cardinality({k \in DOMAIN genMatches :
        genMatches[k].HomeTeamID = h /\ genMatches[k].AwayTeamID = a})

GenWeeks == {genMatches[k].Week : k \in DOMAIN genMatches}

\* C1: for every ordered list of N >= 2 distinct teams the generator returns
\* exactly N*(N-1) fixtures, every ordered pair (home, away) of distinct input
\* teams occurs exactly once, no fixture has home = away and none involves
\* the bye team.
C1_DoubleRoundRobin ==
    (genDone /\ GenN >= 2) =>
        /\ Len(genMatches) = GenN * (GenN - 1)
        /\ \A h \in Range(genTeams) : \A a \in Range(genTeams) :
               h # a => GenPairCount(h, a) = 1
        /\ \A k \in DOMAIN genMatches :
               /\ genMatches[k].HomeTeamID # genMatches[k].AwayTeamID
               /\ genMatches[k].HomeTeamID # ByeTeamID
               /\ genMatches[k].AwayTeamID # ByeTeamID

\* the generator has run on 5 teams (bye team added) and returned 20 fixtures
C1_Witness ==
    /\ genDone
    /\ GenN = 5
    /\ Len(genMatches) = 20
    /\ GenPairCount(genTeams[5], genTeams[1]) = 1

\* C2: for every team count N >= 2, odd or even, the generated fixtures
\* occupy exactly the weeks 1..2*(N-1), and the highest week equals
\* calculateTotalWeeks(N).
C2_WeeksMatchTotalWeeks ==
    (genDone /\ GenN >= 2) =>
        /\ GenWeeks = 1..(2 * (GenN - 1))
        /\ genTotalWeeks = 2 * (GenN - 1)
        /\ \A w \in GenWeeks : w <= genTotalWeeks

(***************************************************************************)
(* Properties of the standings ledger and the season controller            *)
(***************************************************************************)
LeagueMatchIDs(lid) == {k \in DOMAIN matches : matches[k].LeagueID = lid}
WeekMatchIDs(lid, w) == {k \in LeagueMatchIDs(lid) : matches[k].Week = w}
StandingTeams(lid) == {t \in Teams : <<lid, t>> \in DOMAIN standings}

\* the sum of the function f over the finite set of integers S
SumOver(S, f) ==
    LET s == SetToSortedSeq(S) IN SeqSum([i \in 1..Len(s) |-> f[s[i]]])

SumGoalDifference(lid) ==
    SumOver(StandingTeams(lid),
            [t \in StandingTeams(lid) |-> standings[<<lid, t>>].GoalDifference])

\* C3: in every reachable state the goal_difference column of the standings
\* rows of one league sums to exactly 0.
C3_ZeroSumGoalDifference ==
    \A l \in DOMAIN leagues : SumGoalDifference(l) = 0

\* C4: in every reachable state every standings row has
\* goal_difference = goals_for - goals_against, played = wins + draws + losses
\* and points = 3*wins + draws.
C4_StandingRowConsistent ==
    \A k \in DOMAIN standings :
        LET row == standings[k] IN
        /\ row.GoalDifference = row.GoalsFor - row.GoalsAgainst
        /\ row.Played = row.Wins + row.Draws + row.Losses
        /\ row.Points = 3 * row.Wins + row.Draws

\* a row that has gone through UpdateStandings for a win, a draw and a loss
C4_Witness ==
    \E k \in DOMAIN standings :
        /\ standings[k].Wins >= 1
        /\ standings[k].Draws >= 1
        /\ standings[k].Losses >= 1
        /\ standings[k].GoalDifference # 0

\* C5: a league's stored status changes only created -> started and
\* started -> finished, whatever the interleaving of start, advanceWeek and
\* playRemaining requests: it never moves backwards, never skips from created
\* to finished and never leaves finished.
C5_StatusOnlyForward ==
    [][\A l \in DOMAIN leagues :
          /\ l \in DOMAIN leagues'
          /\ leagues'[l].Status # leagues[l].Status =>
                <<leagues[l].Status, leagues'[l].Status>> \in
                    {<<"created", "started">>, <<"started", "finished">>}]_vars

\* the precondition of start does not hold for league lid
StartPreconditionFails(lid) ==
    /\ lid \in DOMAIN leagues
    /\ \/ leagues[lid].Status # "created"
       \/ Cardinality(Members(lid)) < 2

\* C6: a start request for a league whose status is not created, or that has
\* fewer than 2 member teams, is answered with an error and changes nothing
\* in the store: no fixture is created, status and current_week stay.
C6_FailedStartChangesNothing ==
    [][(resp'.op = "start" /\ StartPreconditionFails(resp'.lid)) =>
          /\ resp'.code = 400
          /\ matches' = matches
          /\ leagues' = leagues
          /\ standings' = standings
          /\ league_teams' = league_teams]_vars

\* a start request rejected for a started 4-team league that has played week 1
C6_Witness ==
    /\ resp.op = "start"
    /\ resp.code = 400
    /\ resp.lid \in DOMAIN leagues
    /\ leagues[resp.lid].Status = "started"
    /\ leagues[resp.lid].CurrentWeek = 1
    /\ Len(matches) = 12

\* C7: whatever the sequence of start requests for a league, a failed and
\* retried one included, its fixtures are persisted exactly once: no ordered
\* pair of teams has two fixtures, and the league a start request has just
\* started holds exactly the N*(N-1) fixtures of the generator, all
\* scheduled and without goals.
C7_FixturesPersistedOnce ==
    /\ \A l \in DOMAIN leagues : \A i \in LeagueMatchIDs(l) : \A j \in LeagueMatchIDs(l) :
           (matches[i].HomeTeamID = matches[j].HomeTeamID
            /\ matches[i].AwayTeamID = matches[j].AwayTeamID) => i = j
    /\ (resp.op = "start" /\ resp.code = 200) =>
           /\ Cardinality(LeagueMatchIDs(resp.lid)) =
                  resp.teamsCount * (resp.teamsCount - 1)
           /\ \A k \in LeagueMatchIDs(resp.lid) :
                  /\ matches[k].Status = "scheduled"
                  /\ matches[k].HomeGoals = NULL
                  /\ matches[k].AwayGoals = NULL

\* the precondition of advanceWeek does not hold for league lid
AdvancePreconditionFails(lid) ==
    /\ lid \in DOMAIN leagues
    /\ \/ leagues[lid].Status \in {"created", "finished"}
       \/ /\ leagues[lid].Status = "started"
          /\ WeekMatchIDs(lid, leagues[lid].CurrentWeek + 1) = {}

\* C8: an advanceWeek request for a league whose status is created or
\* finished, or that is started but has no fixture in week current_week+1,
\* is answered with an error and leaves fixtures, standings, status and
\* current_week unchanged.
C8_FailedAdvanceChangesNothing ==
    [][(resp'.op = "advance" /\ AdvancePreconditionFails(resp'.lid)) =>
          /\ resp'.code = IF failures' = failures THEN 400 ELSE 500
          /\ matches' = matches
          /\ standings' = standings
          /\ leagues' = leagues
          /\ league_teams' = league_teams]_vars

\* an advanceWeek request rejected for a league that is started, has played
\* its last week and has no fixture left
C8_Witness ==
    /\ resp.op = "advance"
    /\ resp.code = 400
    /\ resp.lid \in DOMAIN leagues
    /\ leagues[resp.lid].Status = "started"
    /\ leagues[resp.lid].CurrentWeek >= 2
    /\ WeekMatchIDs(resp.lid, leagues[resp.lid].CurrentWeek + 1) = {}

\* what the fixture m adds to a column of the row of team t
GoalsForIn(m, t) ==
    IF m.HomeTeamID = t THEN m.HomeGoals ELSE IF m.AwayTeamID = t THEN m.AwayGoals ELSE 0
GoalsAgainstIn(m, t) ==
    IF m.HomeTeamID = t THEN m.AwayGoals ELSE IF m.AwayTeamID = t THEN m.HomeGoals ELSE 0
PlayedIn(m, t) == IF t \in {m.HomeTeamID, m.AwayTeamID} THEN 1 ELSE 0
PointsIn(m, t) ==
    IF PlayedIn(m, t) = 0 THEN 0
    ELSE IF GoalsForIn(m, t) > GoalsAgainstIn(m, t) THEN 3
    ELSE IF GoalsForIn(m, t) = GoalsAgainstIn(m, t) THEN 1 ELSE 0

\* C9: a successful advanceWeek on a started league with current_week = w
\* marks every fixture of week w+1 as played with a goal pair, adds each of
\* those results to the standings exactly once, sets current_week to w+1,
\* returns exactly the fixtures of week w+1 with the goals it stored, and
\* leaves the fixtures of every other week unchanged.
C9_AdvancePlaysOneWeek ==
    [][(resp'.op = "advance" /\ resp'.code = 200) =>
          LET lid == resp'.lid
              w == leagues[lid].CurrentWeek
              week == WeekMatchIDs(lid, w + 1)
              gf(t) == SumOver(week, [k \in week |-> GoalsForIn(matches'[k], t)])
              ga(t) == SumOver(week, [k \in week |-> GoalsAgainstIn(matches'[k], t)])
              pl(t) == SumOver(week, [k \in week |-> PlayedIn(matches'[k], t)])
              pt(t) == SumOver(week, [k \in week |-> PointsIn(matches'[k], t)])
          IN
          /\ leagues[lid].Status = "started"
          /\ week # {}
          /\ Len(matches') = Len(matches)
          /\ \A k \in week :
                 /\ matches'[k].Status = "played"
                 /\ matches'[k].HomeGoals # NULL /\ matches'[k].HomeGoals >= 0
                 /\ matches'[k].AwayGoals # NULL /\ matches'[k].AwayGoals >= 0
                 /\ matches'[k].HomeTeamID = matches[k].HomeTeamID
                 /\ matches'[k].AwayTeamID = matches[k].AwayTeamID
                 /\ matches'[k].Week = matches[k].Week
          /\ \A k \in DOMAIN matches : k \notin week => matches'[k] = matches[k]
          /\ leagues'[lid].CurrentWeek = w + 1
          /\ {resp'.results[i].ID : i \in DOMAIN resp'.results} = week
          /\ Len(resp'.results) = Cardinality(week)
          /\ \A i \in DOMAIN resp'.results :
                 /\ resp'.results[i].HomeGoals = matches'[resp'.results[i].ID].HomeGoals
                 /\ resp'.results[i].AwayGoals = matches'[resp'.results[i].ID].AwayGoals
          /\ DOMAIN standings' = DOMAIN standings
          /\ \A t \in StandingTeams(lid) :
                 LET old == standings[<<lid, t>>]
                     new == standings'[<<lid, t>>]
                 IN  /\ new.Played = old.Played + pl(t)
                     /\ new.GoalsFor = old.GoalsFor + gf(t)
                     /\ new.GoalsAgainst = old.GoalsAgainst + ga(t)
                     /\ new.Points = old.Points + pt(t)
                     /\ new.Wins + new.Draws + new.Losses =
                            old.Wins + old.Draws + old.Losses + pl(t)]_vars

\* the second week of a 4-team league has just been played by advanceWeek
C9_Witness ==
    /\ resp.op = "advance"
    /\ resp.code = 200
    /\ Len(resp.results) = 2
    /\ leagues[resp.lid].CurrentWeek = 2
    /\ \A k \in WeekMatchIDs(resp.lid, 2) : matches[k].Status = "played"
    /\ \A k \in WeekMatchIDs(resp.lid, 3) : matches[k].Status = "scheduled"

\* C10: after an advanceWeek request that played week t the league's stored
\* status is finished if and only if it has no fixture in week t+1, also
\* when the next-week lookup or the status update fails.
C10_FinishedIffNoNextWeek ==
    (resp.op = "advance" /\ resp.code = 200) =>
        (leagues[resp.lid].Status = "finished"
            <=> WeekMatchIDs(resp.lid, resp.week + 1) = {})

\* the highest week of any fixture of league lid (0: no fixture)
LastWeek(lid) ==
    LET ws == {matches[k].Week : k \in LeagueMatchIDs(lid)} \cup {0}
    IN  CHOOSE w \in ws : \A v \in ws : v <= w

\* C11: after a playRemaining request has succeeded on a started league whose
\* membership never changed (any team count, odd or even, any current_week)
\* no fixture of the league is still scheduled, current_week is the highest
\* week of any fixture, and the status is finished.
C11_PlayRemainingCompletes ==
    (resp.op = "playAll" /\ resp.code = 200 /\ memberChanges = 0) =>
        /\ \A k \in LeagueMatchIDs(resp.lid) : matches[k].Status # "scheduled"
        /\ leagues[resp.lid].CurrentWeek = LastWeek(resp.lid)
        /\ leagues[resp.lid].Status = "finished"

\* no ordered pair of teams has two fixtures in league lid
NoDuplicateFixtures(lid) ==
    \A i \in LeagueMatchIDs(lid) : \A j \in LeagueMatchIDs(lid) :
        (matches[i].HomeTeamID = matches[j].HomeTeamID
         /\ matches[i].AwayTeamID = matches[j].AwayTeamID) => i = j

\* the played fixtures of league lid that team t takes part in
PlayedFixtures(lid, t) ==
    {k \in LeagueMatchIDs(lid) :
        matches[k].Status = "played" /\ t \in {matches[k].HomeTeamID, matches[k].AwayTeamID}}

\* C12: concurrent advanceWeek / playRemaining requests on one league (started
\* once, membership unchanged) behave like a serial execution: no fixture is
\* applied to the standings twice (a row never counts more matches than its
\* team has played fixtures) and no week is skipped (no fixture of a week up
\* to current_week is still scheduled).
C12_ConcurrentAdvanceSerial ==
    \A l \in DOMAIN leagues :
        (memberChanges = 0 /\ NoDuplicateFixtures(l)) =>
            /\ \A t \in StandingTeams(l) :
                   standings[<<l, t>>].Played <= Cardinality(PlayedFixtures(l, t))
            /\ \A k \in LeagueMatchIDs(l) :
                   matches[k].Status = "scheduled" => matches[k].Week > leagues[l].CurrentWeek

\* C13: the writes of one advanceWeek request are all-or-nothing: when the
\* request ends in an error because a store call failed, fixtures, standings,
\* status and current_week are as they were before the request.
C13_AdvanceAllOrNothing ==
    [][(resp'.op = "advance" /\ resp'.code = 500) =>
          /\ matches' = matches
          /\ standings' = standings
          /\ leagues' = leagues]_vars

(***************************************************************************)
(* Properties of the standings ledger (SpecLedger)                         *)
(***************************************************************************)
\* the row `after` is the row `before` plus one match with gf scored, ga
\* conceded and the given points, wins, draws, losses
RowAdds(before, after, gf, ga, points, wins, draws, losses) ==
    /\ after.Played = before.Played + 1
    /\ after.GoalsFor = before.GoalsFor + gf
    /\ after.GoalsAgainst = before.GoalsAgainst + ga
    /\ after.Points = before.Points + points
    /\ after.Wins = before.Wins + wins
    /\ after.Draws = before.Draws + draws
    /\ after.Losses = before.Losses + losses

\* C14: recording a result (hg, ag) adds to the home row played+1,
\* goals_for+hg, goals_against+ag and 3 points and a win if hg > ag, 1 point
\* and a draw if hg = ag, a loss and no points if hg < ag; and adds to the away
\* row played+1, goals_for+ag, goals_against+hg and the mirrored outcome.
C14_ApplyAddsResult ==
    [][(ledgerOp'.op = "record") =>
        LET m == matches[ledgerOp'.id]
            hg == ledgerOp'.new[1]
            ag == ledgerOp'.new[2]
            hk == <<m.LeagueID, m.HomeTeamID>>
            ak == <<m.LeagueID, m.AwayTeamID>>
        IN  /\ hg > ag =>
                /\ RowAdds(standings[hk], standings'[hk], hg, ag, 3, 1, 0, 0)
                /\ RowAdds(standings[ak], standings'[ak], ag, hg, 0, 0, 0, 1)
            /\ hg = ag =>
                /\ RowAdds(standings[hk], standings'[hk], hg, ag, 1, 0, 1, 0)
                /\ RowAdds(standings[ak], standings'[ak], ag, hg, 1, 0, 1, 0)
            /\ hg < ag =>
                /\ RowAdds(standings[hk], standings'[hk], hg, ag, 0, 0, 0, 1)
                /\ RowAdds(standings[ak], standings'[ak], ag, hg, 3, 1, 0, 0)]_vars

\* a home win recorded on top of an earlier result of the same league
C14_Witness ==
    /\ ledgerOp.op = "record"
    /\ ledgerOp.new = <<2, 1>>
    /\ \E k \in PlayedIDs :
        /\ k # ledgerOp.id
        /\ matches[k].LeagueID = matches[ledgerOp.id].LeagueID
        /\ matches[k].HomeGoals = matches[k].AwayGoals
        /\ {matches[k].HomeTeamID, matches[k].AwayTeamID}
              \cap {matches[ledgerOp.id].HomeTeamID, matches[ledgerOp.id].AwayTeamID} # {}

\* the standings after UpdateStandings was applied, from rows of zeros, to the
\* stored result of each of the played fixtures ids
RECURSIVE ApplyStored(_, _)
ApplyStored(db, ids) ==
    IF ids = <<>> THEN db
    ELSE LET m == db.matches[Head(ids)]
         IN  ApplyStored(UpdateStandings(db, m.LeagueID, m.HomeTeamID, m.AwayTeamID,
                                         m.HomeGoals, m.AwayGoals),
                         Tail(ids))

AppliedFromScratch ==
    ApplyStored([DB EXCEPT !.standings = [k \in DOMAIN standings |-> ZeroStanding]],
                SetToSortedSeq(PlayedIDs)).standings

\* C15: after a played result was edited as reverse(old) then apply(new),
\* the standings are exactly those that applying the new result alone, old
\* never applied, gives: the stored results applied to rows of zeros.
C15_EditEqualsApplyNew ==
    (ledgerOp.op = "edit") => standings = AppliedFromScratch

\* a home win edited into an away win while another result of the league
\* stands
C15_Witness ==
    /\ ledgerOp.op = "edit"
    /\ ledgerOp.old = <<2, 0>>
    /\ ledgerOp.new = <<1, 2>>
    /\ \E k \in PlayedIDs :
        /\ k # ledgerOp.id
        /\ matches[k].LeagueID = matches[ledgerOp.id].LeagueID

\* C16: recording or editing one match's result changes only the standings
\* rows of its home and away teams in its league: every other row of that
\* league and of every other league, every other fixture, and every league's
\* status, current week and members are unchanged.
C16_ResultTouchesTwoRows ==
    [][(ledgerOp'.op \in {"record", "edit"}) =>
        LET m == matches[ledgerOp'.id]
            own == {<<m.LeagueID, m.HomeTeamID>>, <<m.LeagueID, m.AwayTeamID>>}
        IN  /\ DOMAIN standings' = DOMAIN standings
            /\ \A k \in (DOMAIN standings) \ own : standings'[k] = standings[k]
            /\ DOMAIN matches' = DOMAIN matches
            /\ \A j \in (DOMAIN matches) \ {ledgerOp'.id} : matches'[j] = matches[j]
            /\ leagues' = leagues
            /\ league_teams' = league_teams]_vars

\* a result of league 2 edited while the same teams hold a recorded result in
\* league 1
C16_Witness ==
    /\ ledgerOp.op = "edit"
    /\ matches[ledgerOp.id].LeagueID = 2
    /\ ledgerOp.old # ledgerOp.new
    /\ standings[<<1, matches[ledgerOp.id].HomeTeamID>>].Played = 1
    /\ standings[<<1, matches[ledgerOp.id].AwayTeamID>>].Played = 1

(***************************************************************************)
(* Properties of the match simulator (SpecSim)                             *)
(***************************************************************************)
\* C17: for all strengths, inside 0..100 and outside, and all draws in
\* 0..99, the goals the simulation returns for the home and the away side are
\* integers in 0..6; so are the goals of the fallback taken when a team
\* lookup fails.
C17_GoalsWithinSix ==
    /\ sim.pc \in {"home", "done"} => sim.homeGoals \in 0..6
    /\ sim.pc = "done" => sim.awayGoals \in 0..6

\* both expectancies clamped (strengths above 100 against -25) and the top bucket
\* drawn for the away side
C17_Witness ==
    /\ sim.pc = "done"
    /\ sim.lookup
    /\ sim.homeStrength > MaxStrength
    /\ sim.awayStrength < 0
    /\ sim.homeStrength + homeAdvantage - sim.awayStrength > 150
    /\ sim.r = RandRange - 1
    /\ sim.homeGoals = 6

\* the strength difference simulateMatch computes for the drawn strengths
SimStrengthDiff == sim.homeStrength + homeAdvantage - sim.awayStrength

\* the expectancy, in hundredths, of the side whose goals were drawn last
SimExpectancy ==
    IF sim.pc = "home" THEN ClampExpectancy(150 + SimStrengthDiff)
    ELSE ClampExpectancy(150 - SimStrengthDiff)
SimGoals == IF sim.pc = "home" THEN sim.homeGoals ELSE sim.awayGoals

\* the smallest and largest expectancy of each band, in hundredths
BandEdges == {50, 100, 101, 200, 201, 300}

\* C18: at every draw r the three goal tables are ordered by band,
\* goals(<=1.0, r) <= goals(<=2.0, r) <= goals(>2.0, r), and the goals a side
\* got at its expectancy 1.5 +/- diff/100 (clamped to [0.5, 3.0]) are not
\* below the goals of any lower expectancy nor above those of any higher
\* expectancy at the same draw.
C18_GoalsMonotoneInExpectancy ==
    (sim.pc \in {"home", "done"} /\ sim.lookup) =>
        /\ generateGoalsFromExpectancy(100, sim.r) <= generateGoalsFromExpectancy(200, sim.r)
        /\ generateGoalsFromExpectancy(200, sim.r) <= generateGoalsFromExpectancy(300, sim.r)
        /\ \A e \in BandEdges :
            /\ e <= SimExpectancy => generateGoalsFromExpectancy(e, sim.r) <= SimGoals
            /\ e >= SimExpectancy => SimGoals <= generateGoalsFromExpectancy(e, sim.r)

\* the away side in the middle band at a draw where the three tables give
\* 3, 4 and 6 goals
C18_Witness ==
    /\ sim.pc = "done"
    /\ sim.lookup
    /\ SimExpectancy > 100 /\ SimExpectancy <= 200
    /\ sim.r = 96
    /\ sim.awayGoals = 4
    /\ generateGoalsFromExpectancy(100, sim.r) = 3
    /\ generateGoalsFromExpectancy(300, sim.r) = 6

(***************************************************************************)
(* Properties of the league lookup (SpecLookup)                            *)
(***************************************************************************)
\* C19: start, advanceWeek and playRemaining on a league id the store does
\* not hold answer not found (404) and change nothing in the store, and a
\* request on a league the store holds never answers not found: its failed
\* preconditions answer 400.
C19_UnknownLeagueNotFound ==
    [][(resp'.op \in SeasonOps) =>
        IF resp'.lid \notin DOMAIN leagues
        THEN /\ resp'.code = 404
             /\ UNCHANGED dbVars
        ELSE /\ resp'.code # 404
             /\ (StartPreconditionFails(resp'.lid) /\ resp'.op = "start") => resp'.code = 400
             /\ (AdvancePreconditionFails(resp'.lid) /\ resp'.op = "advance")
                    => resp'.code = 400
             /\ (leagues[resp'.lid].Status # "started" /\ resp'.op = "playAll")
                    => resp'.code = 400]_vars

\* advanceWeek on an unknown id answered while a started league with played
\* fixtures exists
C19_Witness ==
    /\ resp.op = "advance"
    /\ resp.code = 404
    /\ resp.lid \notin DOMAIN leagues
    /\ \E l \in DOMAIN leagues : leagues[l].Status = "started"
    /\ \E k \in DOMAIN matches : matches[k].Status = "played"

(***************************************************************************)
(* Properties of the fixtures' life cycle (SpecConc)                       *)
(***************************************************************************)
HasGoals(m) == m.HomeGoals # NULL /\ m.AwayGoals # NULL
NoGoals(m) == m.HomeGoals = NULL /\ m.AwayGoals = NULL

\* C20: after every step each fixture is scheduled or played and holds a goal
\* pair exactly when it is played; a fixture the step created is scheduled
\* without goals; a scheduled fixture that the step made played got both goals
\* in that step; and a played fixture stays played.
C20_GoalsIffPlayed ==
    [][\A k \in DOMAIN matches' :
        /\ matches'[k].Status \in {"scheduled", "played"}
        /\ matches'[k].Status = "played" => HasGoals(matches'[k])
        /\ matches'[k].Status = "scheduled" => NoGoals(matches'[k])
        /\ k \notin DOMAIN matches => matches'[k].Status = "scheduled"
        /\ (k \in DOMAIN matches /\ matches[k].Status = "played")
              => matches'[k].Status = "played"]_vars

\* a played fixture with its goals next to a scheduled one, a request in
\* flight
C20_Witness ==
    /\ \E k \in DOMAIN matches : matches[k].Status = "played" /\ HasGoals(matches[k])
    /\ \E k \in DOMAIN matches : matches[k].Status = "scheduled" /\ NoGoals(matches[k])
    /\ \E w \in Workers : procs[w] # Idle

(***************************************************************************)
(* Properties of the generated schedule's weeks (SpecGen)                  *)
(***************************************************************************)
GenLastWeek == CHOOSE w \in GenWeeks \cup {0} : \A v \in GenWeeks : v <= w
GenWeekIDs(w) == {k \in DOMAIN genMatches : genMatches[k].Week = w}
\* the fixtures of week w in which team t plays
GenWeekIDsOf(w, t) ==
    {k \in GenWeekIDs(w) : t \in {genMatches[k].HomeTeamID, genMatches[k].AwayTeamID}}

\* C21: in the generated schedule no team appears in more than one fixture of
\* a week; for even N every week from 1 to the last has N/2 fixtures and
\* every team plays once in it; for odd N every week has (N-1)/2 fixtures and
\* exactly one team is idle; no week before the last is empty.
C21_EveryWeekIsOneRound ==
    (genDone /\ GenN >= 2) =>
        \A w \in 1..GenLastWeek :
            /\ GenWeekIDs(w) # {}
            /\ \A t \in Range(genTeams) : Cardinality(GenWeekIDsOf(w, t)) <= 1
            /\ Cardinality(GenWeekIDs(w)) = GenN \div 2
            /\ Cardinality({t \in Range(genTeams) : GenWeekIDsOf(w, t) = {}}) = GenN % 2

\* the schedule of 5 teams: 2 fixtures in its last week, one team idle
C21_Witness ==
    /\ genDone
    /\ GenN = 5
    /\ GenLastWeek = 10
    /\ Cardinality(GenWeekIDs(GenLastWeek)) = 2
    /\ Cardinality({t \in Range(genTeams) : GenWeekIDsOf(GenLastWeek, t) = {}}) = 1

\* the positions of the first and of the second half of the generated list
GenFirstHalf == 1..(Len(genMatches) \div 2)
GenSecondHalf == (Len(genMatches) \div 2 + 1)..Len(genMatches)

\* fixture j is fixture k with the sides swapped, `shift` weeks later
MirrorOf(j, k, shift) ==
    /\ genMatches[j].HomeTeamID = genMatches[k].AwayTeamID
    /\ genMatches[j].AwayTeamID = genMatches[k].HomeTeamID
    /\ genMatches[j].Week = genMatches[k].Week + shift

\* C22: the second half of the schedule is the mirror of the first half
\* shifted by N-1 weeks: every first-half fixture (h, a, w) has exactly one
\* second-half fixture (a, h, w + (N-1)), and the second half holds nothing
\* else.
C22_SecondHalfMirrorsFirst ==
    (genDone /\ GenN >= 2) =>
        /\ \A k \in GenFirstHalf :
               Cardinality({j \in GenSecondHalf : MirrorOf(j, k, GenN - 1)}) = 1
        /\ \A j \in GenSecondHalf : \E k \in GenFirstHalf : MirrorOf(j, k, GenN - 1)

(***************************************************************************)
(* Properties of the season as a whole (Spec)                              *)
(***************************************************************************)
SumPlayed(lid) ==
    SumOver(StandingTeams(lid), [t \in StandingTeams(lid) |-> standings[<<lid, t>>].Played])

PlayedMatchIDs(lid) == {k \in LeagueMatchIDs(lid) : matches[k].Status = "played"}

\* C23: after sequential, failure-free requests the played columns of a
\* league's standings rows sum to twice the number of its played fixtures;
\* start on 4 teams creates 12 fixtures in weeks 1..6, 2 per week; and once
\* all 12 are played there are 4 rows whose played values sum to 24.
C23_PlayedSumIsTwicePlayedFixtures ==
    \A l \in DOMAIN leagues :
        /\ SumPlayed(l) = 2 * Cardinality(PlayedMatchIDs(l))
        /\ (resp.op = "start" /\ resp.code = 200 /\ resp.lid = l /\ resp.teamsCount = 4) =>
              /\ Cardinality(LeagueMatchIDs(l)) = 12
              /\ \A w \in 1..6 : Cardinality(WeekMatchIDs(l, w)) = 2
        /\ (Cardinality(LeagueMatchIDs(l)) = 12 /\ PlayedMatchIDs(l) = LeagueMatchIDs(l)) =>
              /\ Cardinality(StandingTeams(l)) = 4
              /\ SumPlayed(l) = 24

(***************************************************************************)
(* Properties of the standings order (SpecView)                            *)
(***************************************************************************)
\* row a of team ta is ranked above row b of team tb
RankedAbove(a, ta, b, tb) ==
    \/ a.Points > b.Points
    \/ a.Points = b.Points /\ a.GoalDifference > b.GoalDifference
    \/ a.Points = b.Points /\ a.GoalDifference = b.GoalDifference
         /\ a.GoalsFor > b.GoalsFor
    \/ a.Points = b.Points /\ a.GoalDifference = b.GoalDifference
         /\ a.GoalsFor = b.GoalsFor /\ ta < tb

TallySum(tally) == SumOver(PredictTeams, tally)

\* the trials whose champion has been credited
TrialsEnded ==
    pred.trials - pred.todo - Cardinality({w \in Workers : pred.work[w].busy})

\* C25: every trial credits exactly one champion: while predict runs the
\* workers' tallies sum to the number of trials ended, and when it is done the
\* merged tallies sum to the trial count, however the trials were split and
\* in whichever order the tallies were merged; for a league without remaining
\* fixtures the top-ranked team of the stored standings has the whole count
\* and every other team 0.
C25_TalliesSumToTrials ==
    (pred.pc \in {"running", "done"}) =>
        /\ SumOver(Workers, [w \in Workers |-> TallySum(pred.tally[w])]) = TrialsEnded
        /\ pred.pc = "done" =>
              /\ TallySum(pred.total) = pred.trials
              /\ \A t \in PredictTeams :
                     pred.total[t] = SumOver(Workers, [w \in Workers |-> pred.tally[w][t]])
              /\ pred.remaining = <<>> =>
                    \A r \in Rankings(DB, pred.lid) : \A t \in PredictTeams :
                        pred.total[t] = IF t = r[1] THEN pred.trials ELSE 0

\* predict done on a league with fixtures left, both workers having run
\* trials and two teams credited
C25_Witness ==
    /\ pred.pc = "done"
    /\ pred.remaining # <<>>
    /\ \A w \in Workers : TallySum(pred.tally[w]) > 0
    /\ Cardinality({t \in PredictTeams : pred.total[t] > 0}) >= 2

\* the standings rows `rows` after Ledger.apply of each result <<id, hg, ag>>
RECURSIVE ApplyResults(_, _)
ApplyResults(rows, results) ==
    IF results = <<>> THEN rows
    ELSE LET m == matches[Head(results)[1]]
         IN  ApplyResults(UpdateStandings([DB EXCEPT !.standings = rows],
                              m.LeagueID, m.HomeTeamID, m.AwayTeamID,
                              Head(results)[2], Head(results)[3]).standings,
                          Tail(results))

\* C26: predict is read-only and its trials are isolated: no step of predict
\* changes the stored standings, fixtures, status or current_week, the
\* snapshot stays equal to the stored standings, and the standings of every
\* trial are the snapshot with that trial's own results applied, whatever
\* the other trial does.
C26_PredictReadOnlyTrialsIsolated ==
    [][(pred'.pc # "idle") =>
        /\ UNCHANGED dbVars
        /\ pred'.snapshot = standings'
        /\ \A w \in Workers :
              pred'.work[w].busy =>
                  pred'.work[w].standings
                      = ApplyResults(pred'.snapshot, pred'.work[w].played)]_vars

\* two trials in progress at once, each with a result applied, their
\* standings different
C26_Witness ==
    /\ pred.pc = "running"
    /\ \A w \in Workers : pred.work[w].busy /\ Len(pred.work[w].played) >= 1
    /\ pred.work[1].standings # pred.work[2].standings
    /\ pred.work[1].queue # <<>>

(***************************************************************************)
(* Properties of current_week and of the standings as a whole (Spec)       *)
(***************************************************************************)
\* C27: a league with status created has current_week = 0, and after
\* sequential successful requests a fixture is played exactly when its week
\* is at most the league's current_week.
C27_CurrentWeekMatchesFixtures ==
    \A l \in DOMAIN leagues :
        /\ leagues[l].Status = "created" => leagues[l].CurrentWeek = 0
        /\ \A k \in LeagueMatchIDs(l) :
               matches[k].Status = "played" <=> matches[k].Week <= leagues[l].CurrentWeek

\* a started league in the middle of its season: weeks played and weeks left
C27_Witness ==
    \E l \in DOMAIN leagues :
        /\ leagues[l].Status = "started"
        /\ leagues[l].CurrentWeek >= 2
        /\ \E k \in LeagueMatchIDs(l) : matches[k].Status = "played"
        /\ \E k \in LeagueMatchIDs(l) : matches[k].Status = "scheduled"

\* the standings obtained by applying the stored result of every played
\* fixture once, in the order of the fixture ids, to rows of zeros: one row
\* for every team that has a row in the league or a played fixture there
ReplayedStandings ==
    LET rows == (DOMAIN standings) \cup
                    {r \in (DOMAIN leagues) \X Teams : PlayedFixtures(r[1], r[2]) # {}}
    IN  ApplyStored([DB EXCEPT !.standings = [k \in rows |-> ZeroStanding]],
                    SetToSortedSeq(PlayedIDs)).standings

\* C28: after sequential failure-free requests the standings of every league
\* are those obtained from all-zero rows by applying the stored result of
\* each played fixture exactly once.
C28_StandingsAreReplayOfPlayed ==
    standings = ReplayedStandings

\* C29: in a started or finished league every team of a fixture is a member
\* of the league and has a standings row there.
C29_FixtureTeamsAreMembers ==
    \A l \in DOMAIN leagues :
        leagues[l].Status \in {"started", "finished"} =>
            \A k \in LeagueMatchIDs(l) :
                \A t \in {matches[k].HomeTeamID, matches[k].AwayTeamID} :
                    /\ <<l, t>> \in league_teams
                    /\ <<l, t>> \in DOMAIN standings

(***************************************************************************)
(* A week retried after a failed advanceWeek (SpecFault)                   *)
(***************************************************************************)
\* C30: when an advanceWeek that failed after recording fixtures of the week
\* (those of week current_week + 1 that are already played) is followed by an
\* advanceWeek that succeeds, every fixture recorded by the failed call keeps
\* its result and every row counts each of the team's played fixtures once.
C30_RetryCountsFixturesOnce ==
    [][LET lid == resp.lid
           recorded == {k \in DOMAIN matches :
                           /\ matches[k].LeagueID = lid
                           /\ matches[k].Week = leagues[lid].CurrentWeek + 1
                           /\ matches[k].Status = "played"}
       IN  (/\ resp.op = "advance" /\ resp.code = 500
            /\ resp'.op = "advance" /\ resp'.code = 200 /\ resp'.lid = lid
            /\ memberChanges = 0
            /\ recorded # {})
           => /\ \A k \in recorded : matches'[k] = matches[k]
              /\ \A t \in Teams :
                    <<lid, t>> \in DOMAIN standings' =>
                        standings'[<<lid, t>>].Played =
                            Cardinality({k \in DOMAIN matches' :
                                            /\ matches'[k].LeagueID = lid
                                            /\ matches'[k].Status = "played"
                                            /\ t \in {matches'[k].HomeTeamID,
                                                      matches'[k].AwayTeamID}})]_vars

====
